---------------------------- MODULE Spec2Model ----------------------------
(***************************************************************************)
(* A model of tools/rawansi.py (class RawANSICapture and main):            *)
(*                                                                         *)
(*   - find_ansi_sequences / describe_sequence: the escape-sequence        *)
(*     scanner (a regular expression driven by re.finditer) and the        *)
(*     describer, as pure operators applied by the actions of SpecScan,    *)
(*     and describe_sequence called on its own by SpecDescribe;            *)
(*   - capture_command_output and the part of main that consumes its       *)
(*     result: the polling loop, the cleanup and the return paths, as the  *)
(*     actions of SpecCapture;                                             *)
(*   - run_interactive: the raw-mode switch, the relay loop and its        *)
(*     cleanup, as the actions of SpecInteractive.                         *)
(*                                                                         *)
(* Texts are sequences of characters.  A character is a one-character      *)
(* string, except the two control characters, written "ESC" (0x1B) and     *)
(* "BEL" (0x07), and the interrupt byte "ETX" (0x03).  Offsets are the     *)
(* 0-based, half-open offsets of the Python code.  A description is the    *)
(* sequence of the pieces the f-string concatenates.                       *)
(***************************************************************************)
EXTENDS Integers, Sequences, FiniteSets, TLC

VARIABLES
    \* find_ansi_sequences
    text,           \* the argument of find_ansi_sequences
    scan_pos,       \* the offset at which finditer resumes its search
    sequences,      \* the list `sequences` built by the loop
    scan_pc,        \* "scan" while the for loop runs, "done" once it returned
    described,      \* the outcome of a direct call of describe_sequence
    \* capture_command_output, run_interactive and main
    mode,           \* the call made: "capture", "interactive" or "none"
    pc,             \* the statement the call is at
    master,         \* the controlling descriptor: "none", "open" or "closed"
    slave,          \* the parent's subordinate descriptor, likewise
    output,         \* the bytes accumulated by the loop
    now,            \* time.time() - start_time, in polling intervals
    waited,         \* the time spent in the current select or wait
    ready,          \* the descriptors select returned as ready
    returncode,     \* process.returncode: None or <<the reaped status>>
    result,         \* None until the call returns, then <<the value returned>>
    warned,         \* the timeout warning has been printed
    report,         \* None, then <<what main handed to print_analysis>>
    loop_exit,      \* why the polling loop was left, "no" while it runs
    \* the child and the pseudo-terminal
    child,          \* [state, status, tty_open, sigterm]
    pty_buf,        \* bytes the child wrote that the parent has not read
    child_written,  \* every byte the child wrote, in order
    never_exits,    \* the command is one that never exits on its own
    \* run_interactive: the controlling terminal and the keyboard
    stdin_tty,      \* sys.stdin.isatty()
    tty_mode,       \* the input discipline of the controlling terminal
    tty_initial,    \* the discipline it had before the session
    old_settings,   \* None or <<the discipline saved by tcgetattr>>
    raw_mode_enabled,
    kbd,            \* bytes typed that sys.stdin has not taken from the terminal
    stdin_buf,      \* bytes sys.stdin has taken and read(1) has not returned
    typed,          \* the number of keys typed
    key_log,        \* the bytes of the characters read(1) returned, in order
    to_child,       \* the bytes written to the controlling descriptor
    session_output  \* the text of the list session_output, joined

scanVars == <<text, scan_pos, sequences, scan_pc, described>>
callVars ==
    <<mode, pc, master, slave, output, now, waited, ready, returncode, result,
      warned, report, loop_exit>>
childVars == <<child, pty_buf, child_written, never_exits>>
iaVars ==
    <<stdin_tty, tty_mode, tty_initial, old_settings, raw_mode_enabled, kbd,
      stdin_buf, typed, key_log, to_child, session_output>>
vars == <<scanVars, callVars, childVars, iaVars>>

-----------------------------------------------------------------------------
(* Characters *)

ESC == "ESC"
BEL == "BEL"
ETX == "ETX"

\* The code point of each character the model uses.
Ord(c) ==
    CASE c = "ETX" -> 3
      [] c = "BEL" -> 7
      [] c = "ESC" -> 27
      [] c = " " -> 32
      [] c = "0" -> 48
      [] c = "1" -> 49
      [] c = "3" -> 51
      [] c = "5" -> 53
      [] c = ";" -> 59
      [] c = "H" -> 72
      [] c = "P" -> 80
      [] c = "R" -> 82
      [] c = "[" -> 91
      [] c = "]" -> 93
      [] c = "d" -> 100
      [] c = "e" -> 101
      [] c = "f" -> 102
      [] c = "m" -> 109

\* t[k] of a Python string, 0-based.
At(t, k) == t[k + 1]

\* The character classes of the pattern (rawansi.py:331-336).
IsParamByte(c)  == Ord(c) >= 48 /\ Ord(c) <= 63      \* [0-?]
IsIntermByte(c) == Ord(c) >= 32 /\ Ord(c) <= 47      \* [ -/]
IsFinalByte(c)  == Ord(c) >= 64 /\ Ord(c) <= 126     \* [@-~]
IsStringIntro(c) == Ord(c) \in {80, 88, 94, 95}      \* [PX^_]
IsSingleChar(c) ==                                   \* [@-Z\\-_]
    \/ (Ord(c) >= 64 /\ Ord(c) <= 90)
    \/ (Ord(c) >= 92 /\ Ord(c) <= 95)

\* The starred classes of the pattern: every character of t[a:b] is in the
\* class.
AllParamBytes(t, a, b) == \A k \in a..(b - 1) : IsParamByte(At(t, k))    \* [0-?]*
AllIntermBytes(t, a, b) == \A k \in a..(b - 1) : IsIntermByte(At(t, k))  \* [ -/]*
NoBel(t, a, b) == \A k \in a..(b - 1) : At(t, k) # BEL                   \* [^\x07]*
NoEscBel(t, a, b) ==                                                    \* [^\x1b\x07]*
    \A k \in a..(b - 1) : At(t, k) # ESC /\ At(t, k) # BEL

-----------------------------------------------------------------------------
(* Python string helpers *)

\* t[a:b] of a Python string, for 0 <= a and b <= len(t).
Slice(t, a, b) == IF a >= b THEN <<>> ELSE SubSeq(t, a + 1, b)

\* t.startswith(p)
StartsWith(t, p) == Len(t) >= Len(p) /\ SubSeq(t, 1, Len(p)) = p

\* c in t
Contains(t, c) == \E k \in 1..Len(t) : t[k] = c

\* t.split(";"): the pieces between the separators, at least one piece.
RECURSIVE Split(_)
Split(t) ==
    IF ~Contains(t, ";") THEN <<t>>
    ELSE LET k == CHOOSE k \in 1..Len(t) :
                      t[k] = ";" /\ \A j \in 1..(k - 1) : t[j] # ";"
         IN  <<SubSeq(t, 1, k - 1)>> \o Split(SubSeq(t, k + 1, Len(t)))

-----------------------------------------------------------------------------
(* The pattern of find_ansi_sequences, rawansi.py:330-337.                  *)
(*                                                                         *)
(* Each alternative is matched the way the backtracking matcher of re      *)
(* matches it: a starred class takes as many characters as it can and      *)
(* gives them back one at a time until the rest of the alternative         *)
(* matches; the alternatives are tried in the order written and the first  *)
(* that matches decides the match.  An operator returns the offset just    *)
(* past the match, or NoMatch.                                             *)

NoMatch == -1

\* \[[0-?]*[ -/]*[@-~] after the introducer at offset i.
CsiChoices(t, i) ==
    { c \in (0..Len(t)) \X (0..Len(t)) :
        /\ i + 2 + c[1] + c[2] < Len(t)
        /\ AllParamBytes(t, i + 2, i + 2 + c[1])
        /\ AllIntermBytes(t, i + 2 + c[1], i + 2 + c[1] + c[2])
        /\ IsFinalByte(At(t, i + 2 + c[1] + c[2])) }

MatchCSI(t, i) ==
    IF i + 1 < Len(t) /\ At(t, i + 1) = "[" /\ CsiChoices(t, i) # {}
    THEN LET best == CHOOSE c \in CsiChoices(t, i) :
                         \A d \in CsiChoices(t, i) :
                             c[1] > d[1] \/ (c[1] = d[1] /\ c[2] >= d[2])
         IN  i + 2 + best[1] + best[2] + 1
    ELSE NoMatch

\* \][^\x07]*\x07 after the introducer at offset i.
OscChoices(t, i) ==
    { k \in 0..Len(t) :
        /\ i + 2 + k < Len(t)
        /\ NoBel(t, i + 2, i + 2 + k)
        /\ At(t, i + 2 + k) = BEL }

MatchOSC(t, i) ==
    IF i + 1 < Len(t) /\ At(t, i + 1) = "]" /\ OscChoices(t, i) # {}
    THEN LET k == CHOOSE k \in OscChoices(t, i) :
                      \A j \in OscChoices(t, i) : k >= j
         IN  i + 2 + k + 1
    ELSE NoMatch

\* [PX^_][^\x1b\x07]*\x07 after the introducer at offset i.
StringChoices(t, i) ==
    { k \in 0..Len(t) :
        /\ i + 2 + k < Len(t)
        /\ NoEscBel(t, i + 2, i + 2 + k)
        /\ At(t, i + 2 + k) = BEL }

MatchString(t, i) ==
    IF i + 1 < Len(t) /\ IsStringIntro(At(t, i + 1)) /\ StringChoices(t, i) # {}
    THEN LET k == CHOOSE k \in StringChoices(t, i) :
                      \A j \in StringChoices(t, i) : k >= j
         IN  i + 2 + k + 1
    ELSE NoMatch

\* [@-Z\\-_] after the introducer at offset i.
MatchSingle(t, i) ==
    IF i + 1 < Len(t) /\ IsSingleChar(At(t, i + 1))
    THEN i + 2
    ELSE NoMatch

\* pattern.match(t, i): the end of the match that starts at offset i.
MatchAt(t, i) ==
    IF i >= Len(t) \/ At(t, i) # ESC THEN NoMatch
    ELSE IF MatchCSI(t, i) # NoMatch THEN MatchCSI(t, i)
    ELSE IF MatchOSC(t, i) # NoMatch THEN MatchOSC(t, i)
    ELSE IF MatchString(t, i) # NoMatch THEN MatchString(t, i)
    ELSE MatchSingle(t, i)

\* pattern.search(t, pos): the start of the leftmost match at or after pos.
SearchFrom(t, pos) ==
    IF \E i \in pos..(Len(t) - 1) : MatchAt(t, i) # NoMatch
    THEN CHOOSE i \in pos..(Len(t) - 1) :
             /\ MatchAt(t, i) # NoMatch
             /\ \A j \in pos..(i - 1) : MatchAt(t, j) = NoMatch
    ELSE NoMatch

\* A scanner that resumes one character after the start of the last match.
ResumeInsideMatch(start, end) == start + 1

\* Where finditer resumes after a match [start, end): every match of this
\* pattern is non-empty, so the search resumes at its end.
ResumeAt(start, end) == end

-----------------------------------------------------------------------------
(* describe_sequence, rawansi.py:358-398 *)

\* params or "1", params or "0"
OrDefault(params, d) == IF params # <<>> THEN params ELSE <<d>>

\* The row of 'H' and 'f' (rawansi.py:380-381):
\*   params.split(";")[0] if ";" in params else params or "1"
PositionRow(params) ==
    IF Contains(params, ";") THEN Split(params)[1] ELSE OrDefault(params, "1")

\* The column of 'H' and 'f' (rawansi.py:380-381):
\*   params.split(";")[1] if ";" in params and len(params.split(";")) > 1 else "1"
PositionCol(params) ==
    IF Contains(params, ";") /\ Len(Split(params)) > 1
    THEN Split(params)[2]
    ELSE <<"1">>

\* A describer that takes the parameter 0 of 'm' for a missing parameter.
GraphicsModeZeroIsReset(params) ==
    IF params # <<>> /\ params # <<"0">> THEN <<"Set Graphics Mode ">> \o params
    ELSE <<"Reset Graphics Mode">>

\* 'm' (rawansi.py:386)
GraphicsMode(params) ==
    IF params # <<>> THEN <<"Set Graphics Mode ">> \o params
    ELSE <<"Reset Graphics Mode">>

\* descriptions.get(command, ...), rawansi.py:372-391
DescribeCSI(command, params) ==
    CASE command = "A" -> <<"Cursor Up ">> \o OrDefault(params, "1") \o <<" lines">>
      [] command = "B" -> <<"Cursor Down ">> \o OrDefault(params, "1") \o <<" lines">>
      [] command = "C" -> <<"Cursor Forward ">> \o OrDefault(params, "1") \o <<" columns">>
      [] command = "D" -> <<"Cursor Back ">> \o OrDefault(params, "1") \o <<" columns">>
      [] command = "E" -> <<"Cursor Next Line ">> \o OrDefault(params, "1")
      [] command = "F" -> <<"Cursor Previous Line ">> \o OrDefault(params, "1")
      [] command = "G" -> <<"Cursor Horizontal Absolute column ">> \o OrDefault(params, "1")
      [] command \in {"H", "f"} ->
             <<"Cursor Position row ">> \o PositionRow(params)
                 \o <<", col ">> \o PositionCol(params)
      [] command = "J" ->
             <<"Erase Display ">> \o OrDefault(params, "0")
                 \o <<" (0=cursor to end, 1=start to cursor, 2=entire screen)">>
      [] command = "K" ->
             <<"Erase Line ">> \o OrDefault(params, "0")
                 \o <<" (0=cursor to end, 1=start to cursor, 2=entire line)">>
      [] command = "s" -> <<"Save Cursor Position">>
      [] command = "u" -> <<"Restore Cursor Position">>
      [] command = "m" -> GraphicsMode(params)
      [] command = "h" -> <<"Set Mode ">> \o params
      [] command = "l" -> <<"Reset Mode ">> \o params
      [] OTHER -> <<"CSI ", command, " with params \"">> \o params \o <<"\"">>

describe_sequence(seq) ==
    IF ~StartsWith(seq, <<ESC>>) THEN <<"Not an ANSI sequence">>
    ELSE IF StartsWith(seq, <<ESC, "[">>)
    THEN LET content == Slice(seq, 2, Len(seq))
         IN  IF content = <<>> THEN <<"Incomplete CSI sequence">>
             ELSE DescribeCSI(content[Len(content)],
                              Slice(content, 0, Len(content) - 1))
    ELSE IF StartsWith(seq, <<ESC, "]">>)
    THEN <<"OSC (Operating System Command): ">>
             \o (IF seq[Len(seq)] = BEL
                 THEN Slice(seq, 2, Len(seq) - 1)
                 ELSE Slice(seq, 2, Len(seq)))
    ELSE <<"Other ANSI sequence: ">> \o Slice(seq, 1, Len(seq))

\* The dictionary appended for a match [start, end) (rawansi.py:341-354).
SequenceInfo(t, start, end) ==
    [sequence |-> Slice(t, start, end),
     start |-> start,
     end |-> end,
     description |-> describe_sequence(Slice(t, start, end))]

\* list[k] of a Python list raises IndexError unless 0 <= k < len(list);
\* list[-1] unless the list is not empty.
IndexInRange(list, k) == 0 <= k /\ k < Len(list)

\* A describer that takes the last character of content without testing
\* content first.
ContentIndexedAlways(content) == TRUE

\* content[-1] (rawansi.py:369) is evaluated when `if not content`
\* (rawansi.py:366) has not returned.
ContentIndexed(content) == content # <<>>

\* The index expressions describe_sequence evaluates for seq, one of which
\* raises: content[-1], and in the dictionary, built whole for every CSI
\* sequence, params.split(";")[0] and params.split(";")[1] under their
\* conditions (rawansi.py:369, 380-381).
DescribeRaises(seq) ==
    /\ StartsWith(seq, <<ESC, "[">>)
    /\ LET content == Slice(seq, 2, Len(seq))
           params == Slice(content, 0, Len(content) - 1)
           pieces == Split(params)
       IN  /\ ContentIndexed(content)
           /\ \/ content = <<>>
              \/ Contains(params, ";") /\ ~IndexInRange(pieces, 0)
              \/ /\ Contains(params, ";") /\ Len(pieces) > 1
                 /\ ~IndexInRange(pieces, 1)

\* The outcome of the call describe_sequence(seq): the description
\* returned, or an exception.
DescribeCall(seq) ==
    IF DescribeRaises(seq) THEN [raised |-> TRUE, value |-> <<>>]
    ELSE [raised |-> FALSE, value |-> describe_sequence(seq)]

-----------------------------------------------------------------------------
(* The state before any call is made. *)

\* Python's None; a value that is present is written <<v>>.
None == <<>>

CallIdle ==
    /\ mode = "none"
    /\ pc = "idle"
    /\ master = "none"
    /\ slave = "none"
    /\ output = <<>>
    /\ now = 0
    /\ waited = 0
    /\ ready = {}
    /\ returncode = None
    /\ result = None
    /\ warned = FALSE
    /\ report = None
    /\ loop_exit = "no"

ChildIdle ==
    /\ child = [state |-> "none", status |-> 0, tty_open |-> FALSE,
                sigterm |-> FALSE]
    /\ pty_buf = <<>>
    /\ child_written = <<>>
    /\ never_exits = FALSE

InteractiveIdle ==
    /\ stdin_tty = FALSE
    /\ tty_mode = "cooked"
    /\ tty_initial = "cooked"
    /\ old_settings = None
    /\ raw_mode_enabled = FALSE
    /\ kbd = <<>>
    /\ stdin_buf = <<>>
    /\ typed = 0
    /\ key_log = <<>>
    /\ to_child = <<>>
    /\ session_output = <<>>

\* No call of describe_sequence has been made.
NotDescribed == [raised |-> FALSE, value |-> <<>>]

ScanIdle ==
    /\ text = <<>>
    /\ scan_pos = 0
    /\ sequences = <<>>
    /\ scan_pc = "idle"
    /\ described = NotDescribed

-----------------------------------------------------------------------------
(* find_ansi_sequences, rawansi.py:328-356, one action per iteration of    *)
(* `for match in pattern.finditer(text)`.                                  *)

MaxTextLen == 4

ScanAlphabet == {ESC, BEL, "[", "]", ";", "1", " ", "H", "P"}

\* The inputs: every text over ScanAlphabet of at most MaxTextLen
\* characters, and the texts of the documented scenarios.
ScenarioTexts ==
    { <<ESC, "[", "3", "1", "m", "R", "e", "d", ESC, "[", "0", "m">>,
      <<ESC, "[", "5", ";", "1", "0", "H">>,
      <<ESC, "[", "5", ";", "1", "0", "f">>,
      <<ESC, "[", ";", "1", "0", "H">>,
      <<ESC, "[", ";", "1", "0", "f">>,
      <<ESC, "[", "5", ";", "H">>,
      <<ESC, "[", "5", "H">>,
      <<ESC, "[", "m">>,
      <<ESC, "[", "f">>,
      <<ESC, "[", "3", "1">>,
      <<ESC, "]", ESC, "[", "m", BEL>>,
      <<ESC, "]", "0", ";", "R", "e", "d", BEL, ESC, "[", "1", " ", "m">> }

ScanTexts ==
    UNION { [1..n -> ScanAlphabet] : n \in 0..MaxTextLen } \cup ScenarioTexts

ScanInit ==
    /\ text \in ScanTexts
    /\ scan_pos = 0
    /\ sequences = <<>>
    /\ scan_pc = "scan"
    /\ described = NotDescribed
    /\ CallIdle
    /\ ChildIdle
    /\ InteractiveIdle

\* finditer yields the next match; the loop body appends its dictionary.
ScanMatch ==
    /\ scan_pc = "scan"
    /\ SearchFrom(text, scan_pos) # NoMatch
    /\ LET start == SearchFrom(text, scan_pos)
           end == MatchAt(text, start)
       IN  /\ sequences' = Append(sequences, SequenceInfo(text, start, end))
           /\ scan_pos' = ResumeAt(start, end)
    /\ UNCHANGED <<text, scan_pc, described, callVars, childVars, iaVars>>

\* finditer is exhausted; `return sequences`.
ScanReturn ==
    /\ scan_pc = "scan"
    /\ SearchFrom(text, scan_pos) = NoMatch
    /\ scan_pc' = "done"
    /\ UNCHANGED <<text, scan_pos, sequences, described, callVars, childVars,
                   iaVars>>

ScanNext == ScanMatch \/ ScanReturn

SpecScan == ScanInit /\ [][ScanNext]_vars

-----------------------------------------------------------------------------
(* Properties of the scanner and the describer *)

\* The text between and within the matches, put together in offset order.
RECURSIVE Rebuild(_, _, _, _)
Rebuild(t, ms, k, from) ==
    IF k > Len(ms) THEN Slice(t, from, Len(t))
    ELSE Slice(t, from, ms[k].start) \o ms[k].sequence
             \o Rebuild(t, ms, k + 1, ms[k].end)

\* C1: the matches are ordered by strictly increasing start offset, each is
\* non-empty and ends no later than the next one starts, each 'sequence' is
\* text[start:end], and once the scan has returned the matched spans and the
\* text between them, concatenated in offset order, are the input.
C1_SpansOrderedDisjointAndRebuild ==
    /\ \A k \in 1..Len(sequences) :
           /\ 0 <= sequences[k].start
           /\ sequences[k].start < sequences[k].end
           /\ sequences[k].end <= Len(text)
           /\ sequences[k].sequence =
                  Slice(text, sequences[k].start, sequences[k].end)
    /\ \A k \in 1..(Len(sequences) - 1) :
           /\ sequences[k].start < sequences[k + 1].start
           /\ sequences[k].end <= sequences[k + 1].start
    /\ scan_pc = "done" => Rebuild(text, sequences, 1, 0) = text

\* A finished scan with two matches and unmatched text between them.
C1_Witness ==
    /\ scan_pc = "done"
    /\ Len(sequences) >= 2
    /\ sequences[1].end < sequences[2].start

\* The matches that cover offset i.
Covering(i) ==
    { k \in 1..Len(sequences) :
        sequences[k].start <= i /\ i < sequences[k].end }

\* C7 (as claimed): once the scan has returned, every introducer of the input
\* lies inside exactly one match, and the input ESC[31 has exactly one match,
\* which covers its four characters.
C7_EveryIntroducerInOneMatch ==
    scan_pc = "done" =>
        /\ \A i \in 0..(Len(text) - 1) :
               At(text, i) = ESC => Cardinality(Covering(i)) = 1
        /\ text = <<ESC, "[", "3", "1">> =>
               /\ Len(sequences) = 1
               /\ sequences[1].start = 0
               /\ sequences[1].end = 4

\* An introducer at offset i followed by ']' with no bell after it.
UnterminatedOSCAt(i) ==
    /\ i + 1 < Len(text)
    /\ At(text, i) = ESC
    /\ At(text, i + 1) = "]"
    /\ \A j \in (i + 2)..(Len(text) - 1) : At(text, j) # BEL

\* C8 (as claimed): once the scan has returned, an introducer followed by ']'
\* with no bell later in the input starts one match, and that match is
\* neither the two-character single-character escape nor described as an OSC.
C8_UnterminatedOSCIsMalformed ==
    scan_pc = "done" =>
        \A i \in 0..(Len(text) - 1) :
            UnterminatedOSCAt(i) =>
                /\ \E k \in 1..Len(sequences) : sequences[k].start = i
                /\ \A k \in 1..Len(sequences) :
                       sequences[k].start = i =>
                           /\ sequences[k].sequence # <<ESC, "]">>
                           /\ sequences[k].description[1]
                                  # "OSC (Operating System Command): "

RedScenario == <<ESC, "[", "3", "1", "m", "R", "e", "d", ESC, "[", "0", "m">>

RedFirstMatch ==
    [sequence |-> <<ESC, "[", "3", "1", "m">>, start |-> 0, end |-> 5,
     description |-> <<"Set Graphics Mode ", "3", "1">>]

\* C9 (as claimed): scanning ESC[31m Red ESC[0m yields exactly two matches,
\* ESC[31m at [0,5) described as "Set Graphics Mode 31" and ESC[0m at
\* [8,12) described as "Reset Graphics Mode".
C9_RedScenarioAsClaimed ==
    (scan_pc = "done" /\ text = RedScenario) =>
        sequences =
            << RedFirstMatch,
               [sequence |-> <<ESC, "[", "0", "m">>, start |-> 8, end |-> 12,
                description |-> <<"Reset Graphics Mode">>] >>

\* C9 (amended): scanning ESC[31m Red ESC[0m yields exactly two matches,
\* ESC[31m at [0,5) described as "Set Graphics Mode 31" and ESC[0m at
\* [8,12) described as "Set Graphics Mode 0".
C9_RedScenario ==
    (scan_pc = "done" /\ text = RedScenario) =>
        sequences =
            << RedFirstMatch,
               [sequence |-> <<ESC, "[", "0", "m">>, start |-> 8, end |-> 12,
                description |-> <<"Set Graphics Mode ", "0">>] >>

\* The scan of ESC[31m Red ESC[0m has returned.
C9_Witness ==
    /\ scan_pc = "done"
    /\ text = RedScenario
    /\ Len(sequences) = 2

\* Parameter n of a parameter string, or 1 when it is missing or empty.
GivenOrOne(params, n) ==
    IF n <= Len(Split(params)) /\ Split(params)[n] # <<>>
    THEN Split(params)[n]
    ELSE <<"1">>

\* m is a CSI match whose final byte is H or f.
IsCursorPosition(m) ==
    /\ StartsWith(m.sequence, <<ESC, "[">>)
    /\ Len(m.sequence) >= 3
    /\ m.sequence[Len(m.sequence)] \in {"H", "f"}

\* C10 (as claimed): the description of every CSI match with final byte H or
\* f names the given row, or 1 when the row parameter is missing or empty,
\* and the given column, or 1 when the column parameter is missing or empty.
C10_PositionDefaultsPerAxis ==
    \A k \in 1..Len(sequences) :
        IsCursorPosition(sequences[k]) =>
            LET params == Slice(sequences[k].sequence, 2,
                                Len(sequences[k].sequence) - 1)
            IN  sequences[k].description =
                    <<"Cursor Position row ">> \o GivenOrOne(params, 1)
                        \o <<", col ">> \o GivenOrOne(params, 2)

-----------------------------------------------------------------------------
(* describe_sequence called on its own (rawansi.py:358-398), with any      *)
(* string: a match of the pattern or not.                                  *)

DescribeInit ==
    /\ text \in ScanTexts
    /\ scan_pos = 0
    /\ sequences = <<>>
    /\ scan_pc = "describe"
    /\ described = NotDescribed
    /\ CallIdle
    /\ ChildIdle
    /\ InteractiveIdle

\* description = self.describe_sequence(text)
Describe ==
    /\ scan_pc = "describe"
    /\ described' = DescribeCall(text)
    /\ scan_pc' = "described"
    /\ UNCHANGED <<text, scan_pos, sequences, callVars, childVars, iaVars>>

DescribeNext == Describe

SpecDescribe == DescribeInit /\ [][DescribeNext]_vars

\* C11: describe_sequence is total: for every string it returns a
\* description, a string that is not empty, and does not raise.
C11_DescribeIsTotal ==
    scan_pc = "described" =>
        /\ ~described.raised
        /\ described.value # <<>>
        /\ \A k \in 1..Len(described.value) : described.value[k] \in STRING

\* describe_sequence has been called with ESC[ and nothing after it.
C11_Witness ==
    /\ scan_pc = "described"
    /\ text = <<ESC, "[">>
    /\ described = [raised |-> FALSE, value |-> <<"Incomplete CSI sequence">>]

-----------------------------------------------------------------------------
(* The child process and the pseudo-terminal.                              *)
(*                                                                         *)
(* The child is the shell started by subprocess.Popen (rawansi.py:66-72,   *)
(* 141-147) in a session of its own, with the subordinate side of the      *)
(* pseudo-terminal as its standard streams.  While it runs it may write,   *)
(* close its standard streams, or exit; a SIGTERM it has been sent kills   *)
(* it at some later moment, or never (a command may ignore the signal).    *)

MaxChildBytes == 2

\* The bytes a child writes: one that is valid UTF-8 and one that is not.
ChildByteSet == {"a", "xff"}

\* The exit statuses of a child that exits on its own.
ExitCodes == {0, 3}

\* process.returncode of a child killed by signal.SIGTERM (rawansi.py:106).
SIGTERMStatus == -15

ChildWrite ==
    /\ child.state = "running"
    /\ child.tty_open
    /\ master = "open"
    /\ Len(child_written) < MaxChildBytes
    /\ \E b \in ChildByteSet :
           /\ pty_buf' = Append(pty_buf, b)
           /\ child_written' = Append(child_written, b)
    /\ UNCHANGED <<child, never_exits, callVars, scanVars, iaVars>>

ChildCloseTerminal ==
    /\ child.state = "running"
    /\ child.tty_open
    /\ child' = [child EXCEPT !.tty_open = FALSE]
    /\ UNCHANGED <<pty_buf, child_written, never_exits, callVars, scanVars, iaVars>>

ChildExit ==
    /\ child.state = "running"
    /\ ~never_exits
    /\ \E code \in ExitCodes :
           child' = [child EXCEPT !.state = "exited", !.status = code,
                                  !.tty_open = FALSE]
    /\ UNCHANGED <<pty_buf, child_written, never_exits, callVars, scanVars, iaVars>>

ChildTerminated ==
    /\ child.state = "running"
    /\ child.sigterm
    /\ child' = [child EXCEPT !.state = "exited", !.status = SIGTERMStatus,
                              !.tty_open = FALSE]
    /\ UNCHANGED <<pty_buf, child_written, never_exits, callVars, scanVars, iaVars>>

\* No process holds the subordinate side: a read of the controlling side
\* that finds no data returns b"" or raises OSError.
HungUp == ~child.tty_open /\ slave # "open"

\* select reports the controlling descriptor as readable.
MasterReadable == pty_buf # <<>> \/ HungUp

\* process.poll(): the status of a child that has exited, else None.
Poll ==
    IF returncode # None THEN returncode
    ELSE IF child.state = "exited" THEN <<child.status>>
    ELSE None

\* output.decode('utf-8', errors='replace') (rawansi.py:115): a byte that is
\* not valid UTF-8 becomes the replacement character.
DecodeByte(b) == IF b = "xff" THEN "U+FFFD" ELSE b
Decode(bytes) == [k \in 1..Len(bytes) |-> DecodeByte(bytes[k])]

-----------------------------------------------------------------------------
(* capture_command_output, rawansi.py:59-122.                              *)
(*                                                                         *)
(* Time is counted in polling intervals (0.1 s): it passes while the call  *)
(* is blocked in select or in process.wait, and only then.                 *)
(*                                                                         *)
(* run_interactive opens the pseudo-terminal, starts the child and cleans  *)
(* up with the same statements (rawansi.py:138-149, 225-233); the actions  *)
(* that model them serve both calls and tell them apart by `mode`.         *)

\* self.timeout, in polling intervals.
Timeout == 2

\* The timeout of select.select (rawansi.py:91), one polling interval.
PollTicks == 1

\* The timeout of process.wait (rawansi.py:107), in polling intervals.
WaitTicks == 10

\* The exit code returned for a child that has not exited (rawansi.py:119).
NotExited == -1

\* The pair returned by the except clause (rawansi.py:122).
ErrorResult == [output |-> <<"Error executing command: ">>, returncode |-> 1]

CaptureInit ==
    /\ ScanIdle
    /\ InteractiveIdle
    /\ mode = "capture"
    /\ pc = "openpty"
    /\ master = "none"
    /\ slave = "none"
    /\ output = <<>>
    /\ now = 0
    /\ waited = 0
    /\ ready = {}
    /\ returncode = None
    /\ result = None
    /\ warned = FALSE
    /\ report = None
    /\ loop_exit = "no"
    /\ child = [state |-> "none", status |-> 0, tty_open |-> FALSE,
                sigterm |-> FALSE]
    /\ pty_buf = <<>>
    /\ child_written = <<>>
    /\ never_exits \in BOOLEAN

\* master, slave = pty.openpty() (rawansi.py:63, 138)
OpenPty ==
    /\ pc = "openpty"
    /\ master' = "open"
    /\ slave' = "open"
    /\ pc' = "popen"
    /\ UNCHANGED <<mode, output, now, waited, ready, returncode, result, warned,
                   report, loop_exit, childVars, scanVars, iaVars>>

\* pty.openpty() raises OSError: no pair is allocated.
OpenPtyRaises ==
    /\ pc = "openpty"
    /\ pc' = "except"
    /\ UNCHANGED <<mode, master, slave, output, now, waited, ready, returncode,
                   result, warned, report, loop_exit, childVars, scanVars, iaVars>>

\* process = subprocess.Popen(...) (rawansi.py:66-72, 141-147)
Popen ==
    /\ pc = "popen"
    /\ child' = [child EXCEPT !.state = "running", !.tty_open = TRUE]
    /\ pc' = "close_slave"
    /\ UNCHANGED <<mode, master, slave, output, now, waited, ready, returncode,
                   result, warned, report, loop_exit, pty_buf, child_written,
                   never_exits, scanVars, iaVars>>

\* subprocess.Popen raises (no bash, fork fails): the child is not started.
PopenRaises ==
    /\ pc = "popen"
    /\ pc' = "except"
    /\ UNCHANGED <<mode, master, slave, output, now, waited, ready, returncode,
                   result, warned, report, loop_exit, childVars, scanVars, iaVars>>

\* os.close(slave); output = b""; start_time = time.time()
\* (rawansi.py:74-78, 149)
CloseSlave ==
    /\ pc = "close_slave"
    /\ slave' = "closed"
    /\ output' = <<>>
    /\ now' = 0
    /\ pc' = IF mode = "capture" THEN "loop_poll" ELSE "setraw"
    /\ UNCHANGED <<mode, master, waited, ready, returncode, result, warned, report,
                   loop_exit, childVars, scanVars, iaVars>>

\* if process.poll() is not None: break (rawansi.py:82-83)
LoopPoll ==
    /\ pc = "loop_poll"
    /\ returncode' = Poll
    /\ IF Poll # None
       THEN pc' = "cleanup_poll" /\ loop_exit' = "exited"
       ELSE pc' = "loop_time" /\ UNCHANGED loop_exit
    /\ UNCHANGED <<mode, master, slave, output, now, waited, ready, result, warned,
                   report, childVars, scanVars, iaVars>>

\* A deadline test that lets one more polling interval pass.
DeadlinePassedLate(elapsed) == elapsed > Timeout + 1

\* The deadline test of the loop (rawansi.py:86).
DeadlinePassed(elapsed) == elapsed > Timeout

\* if time.time() - start_time > self.timeout: print(...); break
\* (rawansi.py:86-88)
LoopTimeCheck ==
    /\ pc = "loop_time"
    /\ IF DeadlinePassed(now)
       THEN /\ warned' = TRUE
            /\ loop_exit' = "timeout"
            /\ pc' = "cleanup_poll"
       ELSE /\ pc' = "select"
            /\ UNCHANGED <<warned, loop_exit>>
    /\ waited' = 0
    /\ UNCHANGED <<mode, master, slave, output, now, ready, returncode, result,
                   report, childVars, scanVars, iaVars>>

\* The print of the timeout warning raises (a closed or non-UTF-8 stdout).
WarnRaises ==
    /\ pc = "loop_time"
    /\ DeadlinePassed(now)
    /\ loop_exit' = "raised"
    /\ pc' = "except"
    /\ UNCHANGED <<mode, master, slave, output, now, waited, ready, returncode,
                   result, warned, report, childVars, scanVars, iaVars>>

\* select.select([master], [], [], 0.1) finds the descriptor readable
\* (rawansi.py:91-93).
SelectReady ==
    /\ pc = "select"
    /\ MasterReadable
    /\ ready' = {"master"}
    /\ pc' = "read"
    /\ UNCHANGED <<mode, master, slave, output, now, waited, returncode, result,
                   warned, report, loop_exit, childVars, scanVars, iaVars>>

\* select is blocked while a polling interval passes.
SelectTick ==
    /\ pc = "select"
    /\ ~MasterReadable
    /\ waited < PollTicks
    /\ waited' = waited + 1
    /\ now' = now + 1
    /\ UNCHANGED <<mode, pc, master, slave, output, ready, returncode, result,
                   warned, report, loop_exit, childVars, scanVars, iaVars>>

\* select returns no descriptor after its timeout.
SelectTimeout ==
    /\ pc = "select"
    /\ ~MasterReadable
    /\ waited = PollTicks
    /\ ready' = {}
    /\ pc' = "loop_poll"
    /\ UNCHANGED <<mode, master, slave, output, now, waited, returncode, result,
                   warned, report, loop_exit, childVars, scanVars, iaVars>>

\* select raises (ValueError for a descriptor beyond FD_SETSIZE, OSError).
SelectRaises ==
    /\ pc = "select"
    /\ loop_exit' = "raised"
    /\ pc' = "except"
    /\ UNCHANGED <<mode, master, slave, output, now, waited, ready, returncode,
                   result, warned, report, childVars, scanVars, iaVars>>

\* data = os.read(master, 1024); output += data (rawansi.py:95-97)
ReadData ==
    /\ pc = "read"
    /\ pty_buf # <<>>
    /\ output' = output \o pty_buf
    /\ pty_buf' = <<>>
    /\ pc' = "loop_poll"
    /\ UNCHANGED <<mode, master, slave, now, waited, ready, returncode, result,
                   warned, report, loop_exit, child, child_written,
                   never_exits, scanVars, iaVars>>

\* os.read returns b"": break (rawansi.py:98-99)
ReadEOF ==
    /\ pc = "read"
    /\ pty_buf = <<>>
    /\ HungUp
    /\ loop_exit' = "eof"
    /\ pc' = "cleanup_poll"
    /\ UNCHANGED <<mode, master, slave, output, now, waited, ready, returncode,
                   result, warned, report, childVars, scanVars, iaVars>>

\* os.read raises OSError: break (rawansi.py:100-101)
ReadError ==
    /\ pc = "read"
    /\ pty_buf = <<>>
    /\ HungUp
    /\ loop_exit' = "oserror"
    /\ pc' = "cleanup_poll"
    /\ UNCHANGED <<mode, master, slave, output, now, waited, ready, returncode,
                   result, warned, report, childVars, scanVars, iaVars>>

\* if process.poll() is None: (rawansi.py:105, 227)
CleanupPoll ==
    /\ pc = "cleanup_poll"
    /\ returncode' = Poll
    /\ pc' = IF Poll = None THEN "killpg" ELSE "close_master"
    /\ UNCHANGED <<mode, master, slave, output, now, waited, ready, result, warned,
                   report, loop_exit, childVars, scanVars, iaVars>>

\* os.killpg(os.getpgid(process.pid), signal.SIGTERM) (rawansi.py:106, 228)
Killpg ==
    /\ pc = "killpg"
    /\ child' = [child EXCEPT !.sigterm = TRUE]
    /\ waited' = 0
    /\ pc' = "wait"
    /\ UNCHANGED <<mode, master, slave, output, now, ready, returncode, result,
                   warned, report, loop_exit, pty_buf, child_written,
                   never_exits, scanVars, iaVars>>

\* os.getpgid or os.killpg raises; except: pass (rawansi.py:108-109, 230-231)
KillpgRaises ==
    /\ pc = "killpg"
    /\ pc' = "close_master"
    /\ UNCHANGED <<mode, master, slave, output, now, waited, ready, returncode,
                   result, warned, report, loop_exit, childVars, scanVars, iaVars>>

\* process.wait(timeout=1) returns: the child has exited (rawansi.py:107, 229)
WaitReaps ==
    /\ pc = "wait"
    /\ child.state = "exited"
    /\ returncode' = Poll
    /\ pc' = "close_master"
    /\ UNCHANGED <<mode, master, slave, output, now, waited, ready, result, warned,
                   report, loop_exit, childVars, scanVars, iaVars>>

\* process.wait is blocked while a polling interval passes.
WaitTick ==
    /\ pc = "wait"
    /\ child.state = "running"
    /\ waited < WaitTicks
    /\ waited' = waited + 1
    /\ now' = now + 1
    /\ UNCHANGED <<mode, pc, master, slave, output, ready, returncode, result,
                   warned, report, loop_exit, childVars, scanVars, iaVars>>

\* A wait without a timeout: the call stays blocked.
WaitUnbounded ==
    /\ pc = "wait"
    /\ child.state = "running"
    /\ waited = WaitTicks
    /\ UNCHANGED vars

\* process.wait raises TimeoutExpired; except: pass
\* (rawansi.py:107-109, 229-231)
WaitTimeout ==
    /\ pc = "wait"
    /\ child.state = "running"
    /\ waited = WaitTicks
    /\ pc' = "close_master"
    /\ UNCHANGED <<mode, master, slave, output, now, waited, ready, returncode,
                   result, warned, report, loop_exit, childVars, scanVars, iaVars>>

\* os.close(master) (rawansi.py:111, 233)
CloseMaster ==
    /\ pc = "close_master"
    /\ master' = "closed"
    /\ pc' = IF mode = "capture" THEN "return" ELSE "log"
    /\ UNCHANGED <<mode, slave, output, now, waited, ready, returncode, result,
                   warned, report, loop_exit, childVars, scanVars, iaVars>>

\* The value of the return statement (rawansi.py:113-119).
CapturedResult(bytes, status) ==
    [output |-> Decode(bytes),
     returncode |-> IF status # None THEN status[1] ELSE NotExited]

\* return decoded_output, process.returncode if process.poll() is not None
\* else -1 (rawansi.py:113-119)
Return ==
    /\ pc = "return"
    /\ returncode' = Poll
    /\ result' = <<CapturedResult(output, Poll)>>
    /\ pc' = "returned"
    /\ UNCHANGED <<mode, master, slave, output, now, waited, ready, warned, report,
                   loop_exit, childVars, scanVars, iaVars>>

\* except Exception as e: return f"Error executing command: {e}", 1
\* (rawansi.py:121-122)
ExceptReturn ==
    /\ mode = "capture"
    /\ pc = "except"
    /\ result' = <<ErrorResult>>
    /\ pc' = "returned"
    /\ UNCHANGED <<mode, master, slave, output, now, waited, ready, returncode,
                   warned, report, loop_exit, childVars, scanVars, iaVars>>

\* main: raw_output, returncode = capture.capture_command_output(...);
\* capture.print_analysis(args.command, raw_output, returncode, ...)
\* (rawansi.py:747-757)
MainPrintAnalysis ==
    /\ mode = "capture"
    /\ pc = "returned"
    /\ report' = result
    /\ pc' = "main_done"
    /\ UNCHANGED <<mode, master, slave, output, now, waited, ready, returncode,
                   result, warned, loop_exit, childVars, scanVars, iaVars>>

CaptureNext ==
    \/ OpenPty \/ OpenPtyRaises \/ Popen \/ PopenRaises \/ CloseSlave
    \/ LoopPoll \/ LoopTimeCheck \/ WarnRaises
    \/ SelectReady \/ SelectTick \/ SelectTimeout \/ SelectRaises
    \/ ReadData \/ ReadEOF \/ ReadError
    \/ CleanupPoll \/ Killpg \/ KillpgRaises
    \/ WaitReaps \/ WaitTick \/ WaitTimeout
    \/ CloseMaster \/ Return \/ ExceptReturn \/ MainPrintAnalysis
    \/ ChildWrite \/ ChildCloseTerminal \/ ChildExit \/ ChildTerminated

SpecCapture == CaptureInit /\ [][CaptureNext]_vars

\* The statements of capture_command_output, the passing of time while it
\* is blocked in select or in process.wait included.
CallStep ==
    \/ OpenPty \/ OpenPtyRaises \/ Popen \/ PopenRaises \/ CloseSlave
    \/ LoopPoll \/ LoopTimeCheck \/ WarnRaises
    \/ SelectReady \/ SelectTick \/ SelectTimeout \/ SelectRaises
    \/ ReadData \/ ReadEOF \/ ReadError
    \/ CleanupPoll \/ Killpg \/ KillpgRaises
    \/ WaitReaps \/ WaitTick \/ WaitTimeout
    \/ CloseMaster \/ Return \/ ExceptReturn

\* The interpreter keeps executing the call and time keeps passing while it
\* is blocked; nothing is assumed of the child.
SpecCaptureLive ==
    CaptureInit /\ [][CaptureNext]_vars /\ WF_vars(CallStep)

-----------------------------------------------------------------------------
(* Properties of capture_command_output *)

\* The call has returned (to main, which may have gone on).
Returned == result # None

\* The call is inside its polling loop.
InLoop == pc \in {"loop_poll", "loop_time", "select", "read"}

\* r carries a timed_out mark that is set.
MarkedTimedOut(r) == "timed_out" \in DOMAIN r /\ r.timed_out

C3_DescriptorsClosedOnReturn ==
    Returned => master # "open" /\ slave # "open"

\* The call failed to create the pseudo-terminal pair or to start the child.
SpawnFailed == child.state = "none" /\ pc \in {"except", "returned", "main_done"}

\* C6 (as claimed): after a spawn failure main produces no analysis report
\* from what the call returned, and a call whose spawn succeeded never ends
\* in the error return.
C6_OnlySpawnFailureAborts ==
    /\ (SpawnFailed /\ pc = "main_done") => report = None
    /\ (Returned /\ ~SpawnFailed) => result[1] # ErrorResult

\* Why the loop was left agrees with the state: the child has exited, or
\* the elapsed time exceeds the deadline, or a read found the terminal hung
\* up with nothing to read.
LoopExitJustified ==
    /\ loop_exit = "exited" => child.state = "exited"
    /\ loop_exit = "timeout" => now > Timeout
    /\ loop_exit \in {"eof", "oserror"} => HungUp

C14_NoByteDropped ==
    (mode = "capture" /\ loop_exit = "exited" /\ Returned) =>
        result[1].output = Decode(child_written)

\* The child has exited on its own, and before the deadline.
ExitedOnItsOwn ==
    /\ child.state = "exited"
    /\ child.status \in ExitCodes
    /\ now <= Timeout

\* C15: when the child exits on its own before the deadline, the exit code
\* returned is the child's own status, also when the loop was left by a
\* read of zero bytes or a read error before the exit was observed.
C15_OwnExitStatusReturned ==
    (/\ mode = "capture"
     /\ Returned
     /\ loop_exit \in {"exited", "eof", "oserror"}
     /\ ExitedOnItsOwn) =>
        result[1].returncode = child.status

\* The statements that follow the cleanup's test of the child.
PastCleanupTest ==
    pc \in {"killpg", "wait", "close_master", "return", "returned", "main_done"}

\* C12: once the polling loop has been left, a child that is still alive
\* and has not been sent the termination signal is met only on the way to
\* the signal or after signalling failed; the wait for its exit is bounded;
\* and the call returns the bytes the loop had accumulated.
C12_CleanupOnLoopExit ==
    (mode = "capture" /\ loop_exit # "no") =>
        /\ (child.state = "running" /\ ~child.sigterm) =>
               (pc = "cleanup_poll" \/ PastCleanupTest)
        /\ pc = "wait" => (child.sigterm /\ waited <= WaitTicks)
        /\ Returned => result[1].output = Decode(output)

-----------------------------------------------------------------------------
(* run_interactive, rawansi.py:124-248.                                    *)
(*                                                                         *)
(* The keyboard delivers the UTF-8 bytes of each key typed.  sys.stdin is  *)
(* a buffered text stream: read(1) returns the next decoded character of   *)
(* its buffer and refills the buffer with every byte the terminal holds    *)
(* when it is empty; select looks at the terminal, not at the buffer.      *)

MaxKeys == 2

\* The keys typed: a letter, Ctrl+C, a letter of two UTF-8 bytes, and a key
\* the terminal sends as the single byte 0xFF (a meta key of a terminal
\* that sets the eighth bit, a letter of a Latin-1 terminal), which is not
\* UTF-8.
Keys == {"a", ETX, "eacute", "xff"}

\* The bytes the terminal delivers for a key.
KeyBytes(key) == IF key = "eacute" THEN <<"xc3", "xa9">> ELSE <<key>>

\* sys.stdin.read(1) (rawansi.py:179) on the UTF-8 text stream sys.stdin:
\* the first character decoded from bytes and the bytes it takes.  A byte
\* that is not UTF-8 is no character: the read raises UnicodeDecodeError
\* (or, where sys.stdin decodes with surrogateescape, char.encode() raises
\* UnicodeEncodeError at rawansi.py:183).
Undecodable(bytes) == bytes[1] = "xff"
DecodeFirst(bytes) ==
    IF bytes[1] = "xc3" THEN [char |-> "eacute", used |-> 2]
    ELSE [char |-> bytes[1], used |-> 1]

\* char.encode() (rawansi.py:183)
EncodeChar(char) == IF char = "eacute" THEN <<"xc3", "xa9">> ELSE <<char>>

\* The bytes written to the child for a character read from the keyboard:
\* if char == '\x03': break; os.write(master, char.encode())
\* (rawansi.py:180-183)
Relayed(char) == IF char = ETX THEN <<>> ELSE EncodeChar(char)

ttyVars == <<stdin_tty, tty_mode, tty_initial, old_settings, raw_mode_enabled>>
kbdVars == <<kbd, stdin_buf, typed, key_log, to_child>>
callRest ==
    <<mode, master, slave, output, now, waited, returncode, result, warned,
      report>>

InteractiveInit ==
    /\ ScanIdle
    /\ mode = "interactive"
    /\ pc = "openpty"
    /\ master = "none"
    /\ slave = "none"
    /\ output = <<>>
    /\ now = 0
    /\ waited = 0
    /\ ready = {}
    /\ returncode = None
    /\ result = None
    /\ warned = FALSE
    /\ report = None
    /\ loop_exit = "no"
    /\ child = [state |-> "none", status |-> 0, tty_open |-> FALSE,
                sigterm |-> FALSE]
    /\ pty_buf = <<>>
    /\ child_written = <<>>
    /\ never_exits = FALSE
    /\ stdin_tty \in BOOLEAN
    /\ tty_initial \in {"cooked", "cbreak"}
    /\ tty_mode = tty_initial
    /\ old_settings = None
    /\ raw_mode_enabled = FALSE
    /\ kbd = <<>>
    /\ stdin_buf = <<>>
    /\ typed = 0
    /\ key_log = <<>>
    /\ to_child = <<>>
    /\ session_output = <<>>

\* A key is typed.  The terminal holds the bytes until the loop looks at
\* it, in select or in the read that follows: a key typed at any other
\* moment is seen as one typed just before the next select, and one typed
\* after the loop is never seen.
UserTypes ==
    /\ mode = "interactive"
    /\ stdin_tty
    /\ pc \in {"i_select", "i_stdin"}
    /\ typed < MaxKeys
    /\ \E key \in Keys : kbd' = kbd \o KeyBytes(key)
    /\ typed' = typed + 1
    /\ UNCHANGED <<stdin_buf, key_log, to_child, session_output, ttyVars,
                   callVars, childVars, scanVars>>

\* old_settings = termios.tcgetattr(sys.stdin); tty.setraw(...);
\* raw_mode_enabled = True (rawansi.py:154-158)
SetRaw ==
    /\ pc = "setraw"
    /\ stdin_tty
    /\ old_settings' = <<tty_mode>>
    /\ tty_mode' = "raw"
    /\ raw_mode_enabled' = TRUE
    /\ pc' = "banner"
    /\ UNCHANGED <<stdin_tty, tty_initial, kbdVars, session_output, callRest,
                   ready, loop_exit, childVars, scanVars>>

\* tcgetattr raises, or tty.setraw raises after it; except: pass
\* (rawansi.py:155-160).  The discipline is not changed.
SetRawFails ==
    /\ pc = "setraw"
    /\ stdin_tty
    /\ \E saved \in {None, <<tty_mode>>} : old_settings' = saved
    /\ pc' = "banner"
    /\ UNCHANGED <<stdin_tty, tty_mode, tty_initial, raw_mode_enabled,
                   kbdVars, session_output, callRest, ready, loop_exit,
                   childVars, scanVars>>

\* sys.stdin.isatty() is false (rawansi.py:154)
NotATty ==
    /\ pc = "setraw"
    /\ ~stdin_tty
    /\ pc' = "banner"
    /\ UNCHANGED <<iaVars, callRest, ready, loop_exit, childVars, scanVars>>

\* The two prints before the relay loop (rawansi.py:162-163).
Banner ==
    /\ pc = "banner"
    /\ pc' = "i_poll"
    /\ UNCHANGED <<iaVars, callRest, ready, loop_exit, childVars, scanVars>>

\* One of the two prints raises (a closed or non-UTF-8 stdout): control
\* passes to the except clause of the outer try (rawansi.py:241).
BannerRaises ==
    /\ pc = "banner"
    /\ loop_exit' = "raised"
    /\ pc' = "except"
    /\ UNCHANGED <<iaVars, callRest, ready, childVars, scanVars>>

\* if process.poll() is not None: print(...); break (rawansi.py:168-170)
RelayPoll ==
    /\ pc = "i_poll"
    /\ returncode' = Poll
    /\ IF Poll # None
       THEN pc' = "finally" /\ loop_exit' = "exited"
       ELSE pc' = "i_select" /\ UNCHANGED loop_exit
    /\ UNCHANGED <<mode, master, slave, output, now, waited, ready, result,
                   warned, report, iaVars, childVars, scanVars>>

\* The descriptors select finds readable (rawansi.py:173-174).
ReadySet ==
    (IF stdin_tty /\ kbd # <<>> THEN {"stdin"} ELSE {})
        \cup (IF MasterReadable THEN {"master"} ELSE {})

\* ready, _, _ = select.select(stdin_list + [master], [], [], 0.1): the
\* descriptors readable when it returns, none after its timeout.
RelaySelect ==
    /\ pc = "i_select"
    /\ ready' = ReadySet
    /\ pc' = "i_stdin"
    /\ UNCHANGED <<callRest, loop_exit, iaVars, childVars, scanVars>>

\* A statement of the loop raises (select, a print): the finally clause
\* runs, then the except clause of the outer try.
RelayRaises ==
    /\ pc = "i_select"
    /\ loop_exit' = "raised"
    /\ pc' = "finally"
    /\ UNCHANGED <<callRest, ready, iaVars, childVars, scanVars>>

\* if sys.stdin in ready: char = sys.stdin.read(1); if char == '\x03':
\* break; os.write(master, char.encode()) (rawansi.py:176-183)
RelayKey ==
    /\ pc = "i_stdin"
    /\ "stdin" \in ready
    /\ LET bytes == IF stdin_buf # <<>> THEN stdin_buf ELSE kbd
           first == DecodeFirst(bytes)
       IN  /\ ~Undecodable(bytes)
           /\ stdin_buf' = SubSeq(bytes, first.used + 1, Len(bytes))
           /\ kbd' = IF stdin_buf # <<>> THEN kbd ELSE <<>>
           /\ key_log' = key_log \o SubSeq(bytes, 1, first.used)
           /\ to_child' = to_child \o Relayed(first.char)
           /\ IF first.char = ETX
              THEN pc' = "finally" /\ loop_exit' = "interrupt"
              ELSE pc' = "i_master" /\ UNCHANGED loop_exit
    /\ UNCHANGED <<typed, session_output, ttyVars, callRest, ready,
                   childVars, scanVars>>

\* The character read is not UTF-8: the exception is none of (EOFError,
\* KeyboardInterrupt), so it leaves the loop through the finally clause
\* (rawansi.py:184, 217, 241).  The byte has been taken from the terminal.
RelayKeyRaises ==
    /\ pc = "i_stdin"
    /\ "stdin" \in ready
    /\ LET bytes == IF stdin_buf # <<>> THEN stdin_buf ELSE kbd
       IN  /\ Undecodable(bytes)
           /\ stdin_buf' = Tail(bytes)
           /\ kbd' = IF stdin_buf # <<>> THEN kbd ELSE <<>>
           /\ key_log' = Append(key_log, bytes[1])
    /\ loop_exit' = "raised"
    /\ pc' = "finally"
    /\ UNCHANGED <<typed, to_child, session_output, ttyVars, callRest, ready,
                   childVars, scanVars>>

\* sys.stdin is not in ready (rawansi.py:176)
RelayNoKey ==
    /\ pc = "i_stdin"
    /\ "stdin" \notin ready
    /\ pc' = "i_master"
    /\ UNCHANGED <<callRest, ready, loop_exit, iaVars, childVars, scanVars>>

\* raw_data = os.read(master, 1024); session_output.append(text); the
\* characters are printed (rawansi.py:187-211).  session_output is kept as
\* the joined text, which is what _write_interactive_log analyses.
RelayOutput ==
    /\ pc = "i_master"
    /\ "master" \in ready
    /\ pty_buf # <<>>
    /\ session_output' = session_output \o Decode(pty_buf)
    /\ pty_buf' = <<>>
    /\ pc' = "i_poll"
    /\ UNCHANGED <<ttyVars, kbdVars, callRest, ready, loop_exit, child,
                   child_written, never_exits, scanVars>>

\* os.read returns b"": break (rawansi.py:212-213)
RelayEOF ==
    /\ pc = "i_master"
    /\ "master" \in ready
    /\ pty_buf = <<>>
    /\ loop_exit' = "eof"
    /\ pc' = "finally"
    /\ UNCHANGED <<callRest, ready, iaVars, childVars, scanVars>>

\* os.read raises OSError: break (rawansi.py:214-215)
RelayReadError ==
    /\ pc = "i_master"
    /\ "master" \in ready
    /\ pty_buf = <<>>
    /\ loop_exit' = "oserror"
    /\ pc' = "finally"
    /\ UNCHANGED <<callRest, ready, iaVars, childVars, scanVars>>

\* master is not in ready (rawansi.py:187)
RelayNoOutput ==
    /\ pc = "i_master"
    /\ "master" \notin ready
    /\ pc' = "i_poll"
    /\ UNCHANGED <<callRest, ready, loop_exit, iaVars, childVars, scanVars>>

\* Where control goes after the finally clause: on to the cleanup, or to
\* the except clause when an exception is passing through.
AfterFinally == IF loop_exit = "raised" THEN "except" ELSE "cleanup_poll"

\* if raw_mode_enabled and old_settings: termios.tcsetattr(sys.stdin,
\* termios.TCSADRAIN, old_settings) (rawansi.py:217-221)
RestoreTerminal ==
    /\ pc = "finally"
    /\ raw_mode_enabled /\ old_settings # None
    /\ tty_mode' = old_settings[1]
    /\ pc' = AfterFinally
    /\ UNCHANGED <<stdin_tty, tty_initial, old_settings, raw_mode_enabled,
                   kbdVars, session_output, callRest, ready, loop_exit,
                   childVars, scanVars>>

\* tcsetattr raises; except: pass (rawansi.py:220-223)
RestoreFails ==
    /\ pc = "finally"
    /\ raw_mode_enabled /\ old_settings # None
    /\ pc' = AfterFinally
    /\ UNCHANGED <<iaVars, callRest, ready, loop_exit, childVars, scanVars>>

\* raw mode was not enabled: the finally clause does nothing.
NothingToRestore ==
    /\ pc = "finally"
    /\ ~(raw_mode_enabled /\ old_settings # None)
    /\ pc' = AfterFinally
    /\ UNCHANGED <<iaVars, callRest, ready, loop_exit, childVars, scanVars>>

\* The prints, the session log and `return 0` (rawansi.py:235-248)
SessionEnded ==
    /\ pc = "log"
    /\ result' = <<0>>
    /\ pc' = "returned"
    /\ UNCHANGED <<mode, master, slave, output, now, waited, ready,
                   returncode, warned, report, loop_exit, iaVars, childVars,
                   scanVars>>

\* except Exception as e: print(...); the session log; return 1
\* (rawansi.py:241-246)
InteractiveExcept ==
    /\ mode = "interactive"
    /\ pc = "except"
    /\ result' = <<1>>
    /\ pc' = "returned"
    /\ UNCHANGED <<mode, master, slave, output, now, waited, ready,
                   returncode, warned, report, loop_exit, iaVars, childVars,
                   scanVars>>

InteractiveNext ==
    \/ OpenPty \/ OpenPtyRaises \/ Popen \/ PopenRaises \/ CloseSlave
    \/ SetRaw \/ SetRawFails \/ NotATty \/ Banner \/ BannerRaises
    \/ RelayPoll \/ RelaySelect \/ RelayRaises
    \/ RelayKey \/ RelayKeyRaises \/ RelayNoKey
    \/ RelayOutput \/ RelayEOF \/ RelayReadError \/ RelayNoOutput
    \/ RestoreTerminal \/ RestoreFails \/ NothingToRestore
    \/ CleanupPoll \/ Killpg \/ KillpgRaises
    \/ WaitReaps \/ WaitTick \/ WaitTimeout
    \/ CloseMaster \/ SessionEnded \/ InteractiveExcept
    \/ UserTypes
    \/ ChildWrite \/ ChildCloseTerminal \/ ChildExit \/ ChildTerminated

SpecInteractive == InteractiveInit /\ [][InteractiveNext]_vars

-----------------------------------------------------------------------------
(* Properties of run_interactive.                                          *)

\* C4: when run_interactive has switched the terminal to the raw input
\* discipline, the discipline is back at its value from before the session
\* on every path by which the call returns.
C4_DisciplineRestored ==
    (mode = "interactive" /\ raw_mode_enabled /\ Returned) =>
        tty_mode = tty_initial

\* The bytes of a sequence that come before its first interrupt byte.
RECURSIVE BeforeInterrupt(_)
BeforeInterrupt(bytes) ==
    IF bytes = <<>> \/ Head(bytes) = ETX THEN <<>>
    ELSE <<Head(bytes)>> \o BeforeInterrupt(Tail(bytes))

\* C5: the bytes written to the child are exactly the keyboard bytes read
\* before the first interrupt byte, in the order read, and the interrupt
\* byte is not among them.
C5_KeysRelayedVerbatim ==
    mode = "interactive" =>
        /\ to_child = BeforeInterrupt(key_log)
        /\ \A k \in 1..Len(to_child) : to_child[k] # ETX

=============================================================================
